---- MODULE Spec2Model ----
(***************************************************************************)
(* A model of the course catalogue service: the relational store           *)
(* (src/src/db/schema.py), the two writers insert_course and               *)
(* insert_session and the two streaming readers (src/src/db/queries.py),   *)
(* run by concurrent callers, each holding its own database session        *)
(* (src/src/db/conn.py, get_db).                                           *)
(*                                                                         *)
(* Text (names, identifiers) is a sequence of one-character strings, so    *)
(* that replace, lower, split and concatenation are computed character by  *)
(* character.  Titles, emails and urls are never taken apart and stay      *)
(* atoms.                                                                  *)
(***************************************************************************)
EXTENDS Integers, Sequences, FiniteSets, TLC

(***************************************************************************)
(* Bounds of the model.                                                    *)
(***************************************************************************)
\* The largest number of sessions in one request.
MaxSessions == 1
\* The largest number of media items in one session of a request.
MaxMedia == 1

(***************************************************************************)
(* Text.                                                                   *)
(***************************************************************************)
UpperLetters == <<"A","B","C","D","E","F","G","H","I","J","K","L","M","N","O","P","Q","R","S","T","U","V","W","X","Y","Z">>

LowerLetters == <<"a","b","c","d","e","f","g","h","i","j","k","l","m","n","o","p","q","r","s","t","u","v","w","x","y","z">>

DigitChars == <<"0","1","2","3","4","5","6","7","8","9">>

Range(s) == {s[i] : i \in DOMAIN s}

\* str.lower() on one character.
LowerChar(ch) ==
    IF \E i \in DOMAIN UpperLetters : UpperLetters[i] = ch
    THEN LowerLetters[CHOOSE i \in DOMAIN UpperLetters : UpperLetters[i] = ch]
    ELSE ch

\* str.upper() on one character.
UpperChar(ch) ==
    IF \E i \in DOMAIN LowerLetters : LowerLetters[i] = ch
    THEN UpperLetters[CHOOSE i \in DOMAIN LowerLetters : LowerLetters[i] = ch]
    ELSE ch

\* s.lower()
Lower(s) == [i \in DOMAIN s |-> LowerChar(s[i])]

\* s.replace(" ", "")
RemoveSpaces(s) == SelectSeq(s, LAMBDA ch : ch # " ")

\* The regular expression class \w (over the characters of the model).
IsWordChar(ch) == ch \in Range(UpperLetters) \cup Range(LowerLetters) \cup Range(DigitChars) \cup {"_"}

\* The positions at which a part of re.split(r"\W+|\s+", name.strip()) starts.
PartStarts(s) == {i \in DOMAIN s : IsWordChar(s[i]) /\ (i = 1 \/ ~IsWordChar(s[i - 1]))}

RECURSIVE InitialsFrom(_, _)
InitialsFrom(s, i) ==
    IF i > Len(s) THEN <<>>
    ELSE (IF i \in PartStarts(s) THEN <<UpperChar(s[i])>> ELSE <<>>) \o InitialsFrom(s, i + 1)

\* generate_id: the upper-cased first character of every part of the name,
\* followed by the first four decimal digits of a random uuid (rnd).
generate_id(name, rnd) == InitialsFrom(name, 1) \o rnd

\* str(n) for n >= 0.
RECURSIVE IntToStr(_)
IntToStr(n) == IF n < 10 THEN <<DigitChars[n + 1]>> ELSE IntToStr(n \div 10) \o <<DigitChars[(n % 10) + 1]>>

\* The values str(uuid.uuid4().int)[:4] takes in the model.
RandomSuffixes == {<<"4","2","1","7">>, <<"9","0","3","5">>}

(***************************************************************************)
(* The store: one set of rows per table of src/src/db/schema.py.           *)
(***************************************************************************)
\* String(10) of the Pathway, Professor and Topic ids.
EntityIdLen == 10
\* String(51) of the Course, Session and Media ids.
CompositeIdLen == 51

Models == {"Pathway", "Professor", "Topic"}

EmptyStore == [pathway |-> {}, professors |-> {}, topics |-> {}, courses |-> {}, sessions |-> {}, media |-> {}]

\* The rows of the table a model class is mapped to.
Table(store, model) ==
    CASE model = "Pathway" -> store.pathway
      [] model = "Professor" -> store.professors
      [] model = "Topic" -> store.topics

Ids(rows) == {r.id : r \in rows}

\* CourseAttrs of a Course that declares a pathway_id column as well.
CourseAttrsWithPathway == {"id", "title", "description", "professor_id", "topic_id", "pathway_id", "professor", "topic", "sessions"}

\* The attributes the declarative constructor of Course accepts: its columns
\* and relationships.
CourseAttrs == {"id", "title", "description", "professor_id", "topic_id", "professor", "topic", "sessions"}

\* Pathway: id is the primary key, name is unique.
PathwayAccepts(store, row) ==
    /\ row.id \notin Ids(store.pathway)
    /\ Len(row.id) <= EntityIdLen
    /\ \A r \in store.pathway : r.name # row.name

\* Professor: id is the primary key, email is unique (name is not),
\* pathway_id references pathway.id.
ProfessorAccepts(store, row) ==
    /\ row.id \notin Ids(store.professors)
    /\ Len(row.id) <= EntityIdLen
    /\ \A r \in store.professors : r.email # row.email
    /\ row.pathway_id \in Ids(store.pathway)

\* Topic: id is the primary key, name is unique.
TopicAccepts(store, row) ==
    /\ row.id \notin Ids(store.topics)
    /\ Len(row.id) <= EntityIdLen
    /\ \A r \in store.topics : r.name # row.name

\* Course: id is the primary key, professor_id and topic_id are foreign keys.
CourseAccepts(store, row) ==
    /\ row.id \notin Ids(store.courses)
    /\ Len(row.id) <= CompositeIdLen
    /\ row.professor_id \in Ids(store.professors)
    /\ row.topic_id \in Ids(store.topics)

\* Session: id is the primary key, course_id references courses.id.
SessionAccepts(store, row) ==
    /\ row.id \notin Ids(store.sessions)
    /\ Len(row.id) <= CompositeIdLen
    /\ row.course_id \in Ids(store.courses)

\* Media: id is the primary key, session_id references sessions.id.
MediaAccepts(store, row) ==
    /\ row.id \notin Ids(store.media)
    /\ Len(row.id) <= CompositeIdLen
    /\ row.session_id \in Ids(store.sessions)

(***************************************************************************)
(* The composite keys, as the two writers build them.                      *)
(***************************************************************************)
\* CourseKey from the professor and the topic alone.
CourseKeyWithoutPathway(pathway_id, professor_id, topic_id) == professor_id \o <<"-">> \o topic_id

\* insert_course: f"{pathway.id}-{professor.id}-{topic.id}"
CourseKey(pathway_id, professor_id, topic_id) == pathway_id \o <<"-">> \o professor_id \o <<"-">> \o topic_id

\* insert_session: f"{pathway.id}--{professor.id}-{topic.id}"
SessionWriterCourseKey(pathway_id, professor_id, topic_id) == pathway_id \o <<"-", "-">> \o professor_id \o <<"-">> \o topic_id

\* f"{course_id}-{session_data.session_number}"
SessionKey(course_id, session_number) == course_id \o <<"-">> \o IntToStr(session_number)

\* f"{session_id}-{media_data.type}"
MediaKey(session_id, type) == session_id \o <<"-">> \o type

(***************************************************************************)
(* The entity resolver.  An operator standing for a function that can      *)
(* raise returns a record whose exc field names the exception that leaves  *)
(* it ("none" when it returns).                                            *)
(***************************************************************************)
\* _fetch_entity, the try block: select(model).filter(model.name == name),
\* then first(); EntityNotFoundError is raised inside the try block.
FetchTry(store, model, name) ==
    LET rows == {e \in Table(store, model) : e.name = name}
    IN  IF rows = {} THEN [exc |-> "EntityNotFoundError", rows |-> {}]
        ELSE [exc |-> "none", rows |-> rows]

\* FetchExcept with EntityNotFoundError handed on to the caller.
FetchExceptReraise(exc) ==
    CASE exc = "none" -> "none"
      [] exc = "SQLAlchemyError" -> "DatabaseError"
      [] exc = "EntityNotFoundError" -> "EntityNotFoundError"
      [] OTHER -> "RequestFailure"

\* _fetch_entity, the except clauses: the exception that leaves the function
\* for an exception raised in its try block.  EntityNotFoundError is an
\* Exception and not an SQLAlchemyError, so the second clause takes it.
FetchExcept(exc) ==
    CASE exc = "none" -> "none"
      [] exc = "SQLAlchemyError" -> "DatabaseError"
      [] OTHER -> "RequestFailure"

\* _fetch_entity: rows holds the rows first() may return.
fetch_entity(store, model, name) ==
    LET t == FetchTry(store, model, name)
    IN  [exc |-> FetchExcept(t.exc), rows |-> t.rows]

\* model(id=id_value, name=name, **kwargs)
NewEntity(model, id, name, kwargs) ==
    IF model = "Professor"
    THEN [id |-> id, name |-> name, email |-> kwargs.email, pathway_id |-> kwargs.pathway_id]
    ELSE [id |-> id, name |-> name]

\* Whether the store takes the row on commit.
Accepts(store, model, row) ==
    CASE model = "Pathway" -> PathwayAccepts(store, row)
      [] model = "Professor" -> ProfessorAccepts(store, row)
      [] model = "Topic" -> TopicAccepts(store, row)

StoreWith(store, model, row) ==
    CASE model = "Pathway" -> [store EXCEPT !.pathway = @ \cup {row}]
      [] model = "Professor" -> [store EXCEPT !.professors = @ \cup {row}]
      [] model = "Topic" -> [store EXCEPT !.topics = @ \cup {row}]

\* _insert_entity: add, commit (its own transaction), refresh; a rejected
\* commit is an SQLAlchemyError: rollback and DatabaseError.
insert_entity(store, model, name, kwargs, rnd) ==
    LET entity == NewEntity(model, generate_id(name, rnd), name, kwargs)
    IN  IF Accepts(store, model, entity)
        THEN [exc |-> "none", rows |-> {entity}, store |-> StoreWith(store, model, entity)]
        ELSE [exc |-> "DatabaseError", rows |-> {}, store |-> store]

\* get_or_create_entity: the outcomes of one call.  entity is empty or holds
\* the returned row; created names the row the call inserted, if any.
get_or_create_entity(store, model, name, kwargs, rnd) ==
    LET f == fetch_entity(store, model, name)
    IN  CASE f.exc = "none" ->
               {[exc |-> "none", entity |-> {e}, store |-> store, created |-> {}] : e \in f.rows}
          [] f.exc = "EntityNotFoundError" ->
               LET i == insert_entity(store, model, name, kwargs, rnd)
               IN  {[exc |-> i.exc, entity |-> i.rows, store |-> i.store,
                     created |-> {<<model, e.id>> : e \in i.rows}]}
          [] OTHER ->
               {[exc |-> f.exc, entity |-> {}, store |-> store, created |-> {}]}

(***************************************************************************)
(* Session and Media rows of a request.                                    *)
(***************************************************************************)
\* session_objects of a request's sessions, in request order.
SessionObjects(course_id, sessions) ==
    [i \in DOMAIN sessions |->
        [id |-> SessionKey(course_id, sessions[i].session_number),
         course_id |-> course_id,
         session_number |-> sessions[i].session_number,
         title |-> sessions[i].title,
         description |-> sessions[i].description]]

\* The Media objects of one session of a request.
MediaOfSession(session_id, items) ==
    [j \in DOMAIN items |->
        [id |-> MediaKey(session_id, items[j].type),
         session_id |-> session_id,
         type |-> items[j].type,
         url |-> items[j].url]]

\* media_objects of a request's sessions, in request order.
RECURSIVE MediaObjectsFrom(_, _, _)
MediaObjectsFrom(course_id, sessions, i) ==
    IF i > Len(sessions) THEN <<>>
    ELSE MediaOfSession(SessionKey(course_id, sessions[i].session_number), sessions[i].media)
           \o MediaObjectsFrom(course_id, sessions, i + 1)

MediaObjects(course_id, sessions) == MediaObjectsFrom(course_id, sessions, 1)

DistinctIds(rows) == \A i, j \in DOMAIN rows : rows[i].id = rows[j].id => i = j

\* db.commit() of the pending Course (none or one), Session and Media
\* objects: one transaction, flushed parents first; a row the store rejects
\* fails the whole commit.
CommitRows(store, courseRows, sessionRows, mediaRows) ==
    LET s1 == [store EXCEPT !.courses = @ \cup courseRows]
        s2 == [s1 EXCEPT !.sessions = @ \cup Range(sessionRows)]
        s3 == [s2 EXCEPT !.media = @ \cup Range(mediaRows)]
        ok == /\ \A c \in courseRows : CourseAccepts(store, c)
              /\ DistinctIds(sessionRows)
              /\ \A i \in DOMAIN sessionRows : SessionAccepts(s1, sessionRows[i])
              /\ DistinctIds(mediaRows)
              /\ \A i \in DOMAIN mediaRows : MediaAccepts(s2, mediaRows[i])
    IN  IF ok THEN [exc |-> "none", store |-> s3] ELSE [exc |-> "SQLAlchemyError", store |-> store]

(***************************************************************************)
(* Requests (src/src/models.py) and the values the callers draw them from. *)
(***************************************************************************)
SeqsUpTo(S, n) == UNION {[1..k -> S] : k \in 0..n}

Pdf == <<"p", "d", "f">>

PathwayNames == {<<"M">>, <<" ", "N">>}

ProfessorNames == {<<"A", "l">>, <<"a", " ", "l">>, <<"B", "o">>}

Emails == {"a@x.com", "b@x.com"}

TopicNames == {<<"T">>, <<"U", " ">>, <<"V">>}

SessionNumbers == {1, 2}

\* models.Media
MediaData == [type : {Pdf}, url : {"u"}]

\* models.Session
SessionData == [session_number : SessionNumbers, title : {"s"}, description : {"d"}, media : SeqsUpTo(MediaData, MaxMedia)]

SessionLists == SeqsUpTo(SessionData, MaxSessions)

\* models.CourseRequest
CourseRequest ==
    [professor_name : ProfessorNames, professor_email : Emails, pathway_name : PathwayNames,
     topic_name : TopicNames, course_title : {"Algebra"}, course_description : {"d"},
     sessions : SessionLists]

\* models.SessionRequest: it declares no pathway_name.
SessionRequest == [professor_name : ProfessorNames, topic_name : TopicNames, sessions : SessionLists]

\* A request as a call holds it before it has read request.sessions: the
\* sessions are drawn when the call first reads them.
Unread(requests) == {r \in requests : r.sessions = <<>>}

\* The keyword arguments insert_course passes to Course(...).
CourseKwargs == {"id", "title", "description", "professor_id", "topic_id", "pathway_id"}

(***************************************************************************)
(* The stores the service is started against.  The service creates no      *)
(* table and no row at start-up (src/src/db/conn.py only connects to       *)
(* DATABASE_URL), so the store holds whatever it held before: nothing, or  *)
(* rows in the format insert_course writes (names as it normalises them,   *)
(* ids from generate_id, composite keys as it builds them).                *)
(***************************************************************************)
R1 == <<"4", "2", "1", "7">>

R2 == <<"9", "0", "3", "5">>

RowPathwayM == [id |-> generate_id(<<"M">>, R1), name |-> <<"M">>]

RowPathwayN == [id |-> generate_id(<<"N">>, R2), name |-> <<"N">>]

RowProfessorAl == [id |-> generate_id(<<"a", "l">>, R1), name |-> <<"a", "l">>, email |-> "a@x.com", pathway_id |-> RowPathwayM.id]

RowProfessorBo == [id |-> generate_id(<<"b", "o">>, R2), name |-> <<"b", "o">>, email |-> "b@x.com", pathway_id |-> RowPathwayN.id]

RowTopicT == [id |-> generate_id(<<"T">>, R1), name |-> <<"T">>]

RowTopicU == [id |-> generate_id(<<"U">>, R2), name |-> <<"U">>]

RowCourse(pathway, professor, topic) ==
    [id |-> CourseKey(pathway.id, professor.id, topic.id), title |-> "Algebra", description |-> "d",
     professor_id |-> professor.id, topic_id |-> topic.id]

RowSession(course, n) ==
    [id |-> SessionKey(course.id, n), course_id |-> course.id, session_number |-> n, title |-> "s", description |-> "d"]

RowMedia(session, type) ==
    [id |-> MediaKey(session.id, type), session_id |-> session.id, type |-> type, url |-> "u"]

\* Pathways M and N, professor al of pathway M, topics T and U, and the
\* course of (M, al, T) with one session and one media item; professor al
\* has no course on topic U.
StoreOneCourse ==
    LET c == RowCourse(RowPathwayM, RowProfessorAl, RowTopicT)
    IN  [pathway |-> {RowPathwayM, RowPathwayN}, professors |-> {RowProfessorAl},
         topics |-> {RowTopicT, RowTopicU},
         courses |-> {c}, sessions |-> {RowSession(c, 1)}, media |-> {RowMedia(RowSession(c, 1), Pdf)}]

\* As StoreOneCourse, with the course of (M, al, U): professor al has two.
StoreTwoCourses ==
    LET c == RowCourse(RowPathwayM, RowProfessorAl, RowTopicU)
    IN  [StoreOneCourse EXCEPT !.courses = @ \cup {c},
                               !.sessions = @ \cup {RowSession(c, 1)},
                               !.media = @ \cup {RowMedia(RowSession(c, 1), Pdf)}]

\* As StoreTwoCourses, with professor bo of pathway N and the course of
\* (N, bo, T), which has session 2 and its media item.
StoreTwoProfessors ==
    LET c == RowCourse(RowPathwayN, RowProfessorBo, RowTopicT)
    IN  [StoreTwoCourses EXCEPT !.professors = @ \cup {RowProfessorBo},
                                !.courses = @ \cup {c},
                                !.sessions = @ \cup {RowSession(c, 2)},
                                !.media = @ \cup {RowMedia(RowSession(c, 2), Pdf)}]

InitialStores == {EmptyStore, StoreOneCourse, StoreTwoCourses, StoreTwoProfessors}

(***************************************************************************)
(* State.                                                                  *)
(***************************************************************************)
Callers == {"c1", "c2"}

VARIABLES
    db,         \* the committed rows of the store
    pc,         \* where each caller's call stands
    op,         \* the operation each caller runs
    req,        \* its request
    snap,       \* the store as it was when the call began
    pathway,    \* the call's local pathway: empty, or the row
    professor,  \* the call's local professor
    topic,      \* the call's local topic
    created,    \* the rows the call inserted through _insert_entity
    res,        \* what the call returned or raised to its caller
    loaded,     \* a stream's local courses: the result of .all()
    cursor,     \* how many of them the stream's loop has passed
    out         \* the records the stream has yielded so far

vars == <<db, pc, op, req, snap, pathway, professor, topic, created, res, loaded, cursor, out>>

NoRequest == [sessions |-> <<>>]

NoResult == [kind |-> "none", exc |-> "none", detail |-> <<>>, cause |-> "none"]

Returned(detail) == [kind |-> "return", exc |-> "none", detail |-> detail, cause |-> "none"]

\* cause is the exception the handler caught: it is logged, never handed on.
Raised(exc, detail, cause) == [kind |-> "raise", exc |-> exc, detail |-> detail, cause |-> cause]

Init ==
    /\ db \in InitialStores
    /\ pc = [c \in Callers |-> "idle"]
    /\ op = [c \in Callers |-> "none"]
    /\ req = [c \in Callers |-> NoRequest]
    /\ snap = [c \in Callers |-> EmptyStore]
    /\ pathway = [c \in Callers |-> {}]
    /\ professor = [c \in Callers |-> {}]
    /\ topic = [c \in Callers |-> {}]
    /\ created = [c \in Callers |-> {}]
    /\ res = [c \in Callers |-> NoResult]
    /\ loaded = [c \in Callers |-> <<>>]
    /\ cursor = [c \in Callers |-> 0]
    /\ out = [c \in Callers |-> <<>>]

\* A caller takes up a request: the call starts at its first step.
Begin(c, operation, request, first) ==
    /\ pc' = [pc EXCEPT ![c] = first]
    /\ op' = [op EXCEPT ![c] = operation]
    /\ req' = [req EXCEPT ![c] = request]
    /\ snap' = [snap EXCEPT ![c] = db]
    /\ UNCHANGED <<db, pathway, professor, topic, created, res, loaded, cursor, out>>

(***************************************************************************)
(* insert_course.  One action for each stretch between two awaits on the   *)
(* store.                                                                  *)
(***************************************************************************)
\* POST /add_course
CallInsertCourse(c) ==
    /\ pc[c] = "idle"
    /\ \E r \in Unread(CourseRequest) : Begin(c, "insert_course", r, "ic_pathway")

\* insert_course's handler: rollback (the session holds nothing committed to
\* undo), log, RequestFailure(f"Failed to Insert Course {request.course_title}").
InsertCourseExcept(request, cause) == Raised("RequestFailure", <<"Failed to Insert Course ", request.course_title>>, cause)

\* pathway = await get_or_create_entity(db, Pathway, request.pathway_name.replace(" ", ""))
IcPathway(c) ==
    /\ pc[c] = "ic_pathway"
    /\ \E rnd \in RandomSuffixes :
         \E o \in get_or_create_entity(db, "Pathway", RemoveSpaces(req[c].pathway_name), <<>>, rnd) :
            /\ db' = o.store
            /\ created' = [created EXCEPT ![c] = @ \cup o.created]
            /\ pathway' = [pathway EXCEPT ![c] = o.entity]
            /\ pc' = [pc EXCEPT ![c] = IF o.exc = "none" THEN "ic_professor" ELSE "done"]
            /\ res' = [res EXCEPT ![c] = IF o.exc = "none" THEN @ ELSE InsertCourseExcept(req[c], o.exc)]
    /\ UNCHANGED <<op, req, snap, professor, topic, loaded, cursor, out>>

\* The name insert_course resolves and stores the professor by:
\* request.professor_name.replace(" ", "").lower()
ProfessorWriteName(name) == Lower(RemoveSpaces(name))

\* professor = await get_or_create_entity(db, Professor, name=..., email=..., pathway_id=pathway.id)
IcProfessor(c) ==
    /\ pc[c] = "ic_professor"
    /\ \E rnd \in RandomSuffixes, p \in pathway[c] :
         \E o \in get_or_create_entity(db, "Professor", ProfessorWriteName(req[c].professor_name),
                                       [email |-> req[c].professor_email, pathway_id |-> p.id], rnd) :
            /\ db' = o.store
            /\ created' = [created EXCEPT ![c] = @ \cup o.created]
            /\ professor' = [professor EXCEPT ![c] = o.entity]
            /\ pc' = [pc EXCEPT ![c] = IF o.exc = "none" THEN "ic_topic" ELSE "done"]
            /\ res' = [res EXCEPT ![c] = IF o.exc = "none" THEN @ ELSE InsertCourseExcept(req[c], o.exc)]
    /\ UNCHANGED <<op, req, snap, pathway, topic, loaded, cursor, out>>

\* topic = await get_or_create_entity(db, Topic, request.topic_name.replace(" ", ""))
IcTopic(c) ==
    /\ pc[c] = "ic_topic"
    /\ \E rnd \in RandomSuffixes :
         \E o \in get_or_create_entity(db, "Topic", RemoveSpaces(req[c].topic_name), <<>>, rnd) :
            /\ db' = o.store
            /\ created' = [created EXCEPT ![c] = @ \cup o.created]
            /\ topic' = [topic EXCEPT ![c] = o.entity]
            /\ pc' = [pc EXCEPT ![c] = IF o.exc = "none" THEN "ic_course" ELSE "done"]
            /\ res' = [res EXCEPT ![c] = IF o.exc = "none" THEN @ ELSE InsertCourseExcept(req[c], o.exc)]
    /\ UNCHANGED <<op, req, snap, pathway, professor, loaded, cursor, out>>

\* From the course key to the commit: the duplicate check, Course(...), the
\* Session and Media objects, db.commit().  read tells whether the call got
\* as far as reading request.sessions.
InsertCourseRows(store, request, p, r, t) ==
    LET course_id == CourseKey(p.id, r.id, t.id)
        existing_course == {x \in store.courses : x.id = course_id}
        course == [id |-> course_id, title |-> request.course_title,
                   description |-> request.course_description,
                   professor_id |-> r.id, topic_id |-> t.id]
        commit == CommitRows(store, {course}, SessionObjects(course_id, request.sessions),
                             MediaObjects(course_id, request.sessions))
    IN  CASE existing_course # {} ->
               [exc |-> "CourseAlreadyExistsError", store |-> store, course_id |-> course_id, read |-> FALSE]
          [] ~(CourseKwargs \subseteq CourseAttrs) ->
               [exc |-> "TypeError", store |-> store, course_id |-> course_id, read |-> FALSE]
          [] OTHER ->
               [exc |-> commit.exc, store |-> commit.store, course_id |-> course_id, read |-> TRUE]

IcCourse(c) ==
    /\ pc[c] = "ic_course"
    /\ \E p \in pathway[c], r \in professor[c], t \in topic[c], ss \in SessionLists :
         LET request == [req[c] EXCEPT !.sessions = ss]
             o == InsertCourseRows(db, request, p, r, t)
         IN  /\ req' = [req EXCEPT ![c] = IF o.read THEN request ELSE @]
             /\ db' = o.store
             /\ res' = [res EXCEPT ![c] = IF o.exc = "none" THEN Returned(o.course_id)
                                          ELSE InsertCourseExcept(request, o.exc)]
    /\ pc' = [pc EXCEPT ![c] = "done"]
    /\ UNCHANGED <<op, snap, pathway, professor, topic, created, loaded, cursor, out>>

(***************************************************************************)
(* insert_session.  Its first statement reads request.pathway_name, so the *)
(* whole call is one action: no await on the store comes before the        *)
(* handler's.                                                              *)
(***************************************************************************)
\* POST /add_session
CallInsertSession(c) ==
    /\ pc[c] = "idle"
    /\ \E r \in Unread(SessionRequest) : Begin(c, "insert_session", r, "is_body")

\* From the course key to the commit.  bound tells whether course_id was
\* assigned before the exception.
AppendSessionRows(store, request, p, r, t) ==
    LET course_id == SessionWriterCourseKey(p.id, r.id, t.id)
        existing_course == {x \in store.courses : x.id = course_id}
        commit == CommitRows(store, {}, SessionObjects(course_id, request.sessions),
                             MediaObjects(course_id, request.sessions))
    IN  IF existing_course = {}
        THEN [exc |-> "CourseNotFoundError", store |-> store, bound |-> TRUE, course_id |-> course_id, read |-> FALSE]
        ELSE [exc |-> commit.exc, store |-> commit.store, bound |-> TRUE, course_id |-> course_id, read |-> TRUE]

\* An exception raised before course_id is assigned.
RaisedEarly(store, exc) == [exc |-> exc, store |-> store, bound |-> FALSE, course_id |-> <<>>, read |-> FALSE]

\* InsertSessionTry with the topic resolved first and by insertion when no
\* row has its name, as insert_course means to, before the request's
\* missing attribute is read.
InsertSessionTryCreating(store, request) ==
    LET name == RemoveSpaces(request.topic_name)
        i == insert_entity(store, "Topic", name, <<>>, R1)
    IN  {RaisedEarly(IF \E x \in store.topics : x.name = name THEN store ELSE i.store, "AttributeError")}

\* The try block of insert_session: the outcomes of one call.  Reading an
\* attribute the request's model does not declare is an AttributeError.
InsertSessionTry(store, request) ==
    IF "pathway_name" \notin DOMAIN request THEN {RaisedEarly(store, "AttributeError")}
    ELSE
      LET fp == fetch_entity(store, "Pathway", RemoveSpaces(request.pathway_name))
          fr == fetch_entity(store, "Professor", RemoveSpaces(request.professor_name))
          ft == fetch_entity(store, "Topic", RemoveSpaces(request.topic_name))
      IN  CASE fp.exc # "none" -> {RaisedEarly(store, fp.exc)}
            [] fr.exc # "none" -> {RaisedEarly(store, fr.exc)}
            [] ft.exc # "none" -> {RaisedEarly(store, ft.exc)}
            [] OTHER -> {AppendSessionRows(store, request, p, r, t) : p \in fp.rows, r \in fr.rows, t \in ft.rows}

\* insert_session's handler: rollback, then
\* RequestFailure(f"Failed to add sessions and media to {course_id}"), whose
\* message reads course_id: unassigned, that is an UnboundLocalError.
InsertSessionExcept(o) ==
    IF o.bound
    THEN Raised("RequestFailure", <<"Failed to add sessions and media to ">> \o o.course_id, o.exc)
    ELSE Raised("UnboundLocalError", <<"course_id">>, o.exc)

IsBody(c) ==
    /\ pc[c] = "is_body"
    /\ \E ss \in SessionLists :
         LET request == [req[c] EXCEPT !.sessions = ss]
         IN  \E o \in InsertSessionTry(db, request) :
               /\ req' = [req EXCEPT ![c] = IF o.read THEN request ELSE @]
               /\ db' = o.store
               /\ res' = [res EXCEPT ![c] = IF o.exc = "none" THEN Returned(o.course_id)
                                            ELSE InsertSessionExcept(o)]
    /\ pc' = [pc EXCEPT ![c] = "done"]
    /\ UNCHANGED <<op, snap, pathway, professor, topic, created, loaded, cursor, out>>

(***************************************************************************)
(* The streaming readers.                                                  *)
(***************************************************************************)
\* The sequences that list every element of a finite set once.
Perms(S) == {f \in [1..Cardinality(S) -> S] : \A i, j \in DOMAIN f : f[i] = f[j] => i = j}

\* What joinedload brings with a course: its professor, its sessions and
\* each session's media, the collections in the order the store returns them.
LoadedSession(store, s) ==
    {[session |-> s, media |-> m] : m \in Perms({x \in store.media : x.session_id = s.id})}

LoadedSessions(store, course) ==
    LET ss == {s \in store.sessions : s.course_id = course.id}
    IN  {f \in [1..Cardinality(ss) -> UNION {LoadedSession(store, s) : s \in ss}] :
            \A i, j \in DOMAIN f : f[i].session = f[j].session => i = j}

LoadedCourse(store, course) ==
    {[course |-> course, professor |-> p, sessions |-> ss] :
        p \in {x \in store.professors : x.id = course.professor_id},
        ss \in LoadedSessions(store, course)}

\* result.unique().scalars().all() for the selected rows: every order the
\* store may return them in.
LoadedAll(store, rows) ==
    {f \in [1..Cardinality(rows) -> UNION {LoadedCourse(store, x) : x \in rows}] :
        \A i, j \in DOMAIN f : f[i].course = f[j].course => i = j}

\* course_to_response: the serialized record of one loaded course.
course_to_response(lc) ==
    [id |-> lc.course.id,
     title |-> lc.course.title,
     description |-> lc.course.description,
     professor |-> [id |-> lc.professor.id, name |-> lc.professor.name],
     sessions |-> [i \in DOMAIN lc.sessions |->
                     [session_number |-> lc.sessions[i].session.session_number,
                      title |-> lc.sessions[i].session.title,
                      description |-> lc.sessions[i].session.description,
                      media |-> [j \in DOMAIN lc.sessions[i].media |->
                                   [type |-> lc.sessions[i].media[j].type,
                                    url |-> lc.sessions[i].media[j].url]]]]]

\* str(e) of the exception _fetch_entity raises for a model.
FetchMessage(exc, model) ==
    IF exc = "RequestFailure" THEN <<"Failed to fetch ", model>> ELSE <<"Error fetching ", model>>

\* ErrorRecords with the exception swallowed: nothing is yielded.
ErrorRecordsNone(msg) == <<>>

\* What the except clauses of a stream yield for an exception with message
\* msg: ErrorResponse(error=str(e)), one record.
ErrorRecords(msg) == <<[error |-> msg]>>

\* The model a filter names: Professor if filter_by == "professor" else Topic.
FilterModel(filter_by) == IF filter_by = "professor" THEN "Professor" ELSE "Topic"

\* GET /courses/prof/{prof_name} and GET /courses/topic/{topic_name}
CallStreamByFilter(c) ==
    /\ pc[c] = "idle"
    /\ \E f \in {"professor", "topic"} :
         \E v \in (IF f = "professor" THEN ProfessorNames ELSE TopicNames) :
             Begin(c, "stream_courses_by_filter", [filter_by |-> f, value |-> v], "sf_entity")

\* GET /courses/{professor_name}/{topic_name}
CallStreamPair(c) ==
    /\ pc[c] = "idle"
    /\ \E pn \in ProfessorNames, tn \in TopicNames :
         Begin(c, "stream_courses_on_prof_and_topic", [professor_name |-> pn, topic_name |-> tn], "sp_professor")

\* Whether an await db.execute(...) of a stream is answered: the store may
\* fail it with an SQLAlchemyError instead.
Answers == BOOLEAN

\* _fetch_entity over a store that answers the select or fails it: the
\* SQLAlchemyError is raised inside the try and handled as FetchExcept says.
fetch_entity_from(store, model, name, answered) ==
    IF answered THEN fetch_entity(store, model, name)
    ELSE [exc |-> FetchExcept("SQLAlchemyError"), rows |-> {}]

\* str(e) of the SQLAlchemyError the select of the courses fails with.
ExecuteMessage == <<"SQLAlchemyError">>

\* A stream's lookup: the entity, or the error record yielded from the
\* except clause, at which the generator is suspended.  res keeps the
\* exception the except clause caught.
StreamFetch(c, model, name, next) ==
    \E answered \in Answers :
        LET f == fetch_entity_from(db, model, name, answered)
        IN  IF f.exc = "none"
            THEN /\ \E e \in f.rows :
                      /\ professor' = [professor EXCEPT ![c] = IF model = "Professor" THEN {e} ELSE @]
                      /\ topic' = [topic EXCEPT ![c] = IF model = "Topic" THEN {e} ELSE @]
                 /\ pc' = [pc EXCEPT ![c] = next]
                 /\ UNCHANGED <<out, res>>
            ELSE /\ out' = [out EXCEPT ![c] = @ \o ErrorRecords(FetchMessage(f.exc, model))]
                 /\ res' = [res EXCEPT ![c].cause = f.exc]
                 /\ pc' = [pc EXCEPT ![c] = "st_close"]
                 /\ UNCHANGED <<professor, topic>>

\* entity = await _fetch_entity(db, model, value.replace(" ", ""))
SfEntity(c) ==
    /\ pc[c] = "sf_entity"
    /\ StreamFetch(c, FilterModel(req[c].filter_by), RemoveSpaces(req[c].value), "st_courses")
    /\ UNCHANGED <<db, op, req, snap, pathway, created, loaded, cursor>>

\* professor = await _fetch_entity(db, Professor, professor_name.replace(" ", ""))
SpProfessor(c) ==
    /\ pc[c] = "sp_professor"
    /\ StreamFetch(c, "Professor", RemoveSpaces(req[c].professor_name), "sp_topic")
    /\ UNCHANGED <<db, op, req, snap, pathway, created, loaded, cursor>>

\* topic = await _fetch_entity(db, Topic, topic_name.replace(" ", ""))
SpTopic(c) ==
    /\ pc[c] = "sp_topic"
    /\ StreamFetch(c, "Topic", RemoveSpaces(req[c].topic_name), "st_courses")
    /\ UNCHANGED <<db, op, req, snap, pathway, created, loaded, cursor>>

\* Selected with the where clause left out: every course.
SelectedEvery(store, operation, request, professors, topics) == store.courses

\* The rows a stream's select takes: those of the entity of the filter, or
\* of the professor and the topic.
Selected(store, operation, request, professors, topics) ==
    CASE operation = "stream_courses_by_filter" /\ request.filter_by = "professor" ->
           {x \in store.courses : \E e \in professors : x.professor_id = e.id}
      [] operation = "stream_courses_by_filter" /\ request.filter_by # "professor" ->
           {x \in store.courses : \E e \in topics : x.topic_id = e.id}
      [] OTHER ->
           {x \in store.courses : /\ \E e \in professors : x.professor_id = e.id
                                  /\ \E e \in topics : x.topic_id = e.id}

\* result = await db.execute(select(Course)...); courses = result.unique().scalars().all()
\* A failed execute is caught by except Exception, which yields its record.
StCourses(c) ==
    /\ pc[c] = "st_courses"
    /\ \E answered \in Answers :
         IF answered
         THEN /\ \E l \in LoadedAll(db, Selected(db, op[c], req[c], professor[c], topic[c])) :
                   loaded' = [loaded EXCEPT ![c] = l]
              /\ pc' = [pc EXCEPT ![c] = "st_yield"]
              /\ UNCHANGED <<out, res>>
         ELSE /\ out' = [out EXCEPT ![c] = @ \o ErrorRecords(ExecuteMessage)]
              /\ res' = [res EXCEPT ![c].cause = "SQLAlchemyError"]
              /\ pc' = [pc EXCEPT ![c] = "st_close"]
              /\ UNCHANGED loaded
    /\ UNCHANGED <<db, op, req, snap, pathway, professor, topic, created, cursor>>

\* for course in courses: yield await course_to_response(course)
StYield(c) ==
    /\ pc[c] = "st_yield"
    /\ cursor[c] < Len(loaded[c])
    /\ out' = [out EXCEPT ![c] = Append(@, course_to_response(loaded[c][cursor[c] + 1]))]
    /\ cursor' = [cursor EXCEPT ![c] = @ + 1]
    /\ UNCHANGED <<db, pc, op, req, snap, pathway, professor, topic, created, res, loaded>>

\* StClose with the caught exception raised again once its record has been
\* yielded: the stream ends by raising to its consumer.
StCloseReraise(c) ==
    /\ \/ pc[c] = "st_close"
       \/ pc[c] = "st_yield" /\ cursor[c] = Len(loaded[c])
    /\ pc' = [pc EXCEPT ![c] = "done"]
    /\ res' = [res EXCEPT ![c] = IF res[c].cause = "none" THEN Returned(<<>>)
                                 ELSE Raised(res[c].cause, <<>>, res[c].cause)]
    /\ UNCHANGED <<db, op, req, snap, pathway, professor, topic, created, loaded, cursor, out>>

\* The generator runs off its end: after the last course, or when resumed
\* after the error record.  The stream has returned; the exception an
\* except clause caught on the way stays in res as its cause.
StClose(c) ==
    /\ \/ pc[c] = "st_close"
       \/ pc[c] = "st_yield" /\ cursor[c] = Len(loaded[c])
    /\ pc' = [pc EXCEPT ![c] = "done"]
    /\ res' = [res EXCEPT ![c] = [Returned(<<>>) EXCEPT !.cause = res[c].cause]]
    /\ UNCHANGED <<db, op, req, snap, pathway, professor, topic, created, loaded, cursor, out>>

\* The call is over; the caller is free for its next request.
Return(c) ==
    /\ pc[c] = "done"
    /\ pc' = [pc EXCEPT ![c] = "idle"]
    /\ op' = [op EXCEPT ![c] = "none"]
    /\ req' = [req EXCEPT ![c] = NoRequest]
    /\ snap' = [snap EXCEPT ![c] = EmptyStore]
    /\ pathway' = [pathway EXCEPT ![c] = {}]
    /\ professor' = [professor EXCEPT ![c] = {}]
    /\ topic' = [topic EXCEPT ![c] = {}]
    /\ created' = [created EXCEPT ![c] = {}]
    /\ res' = [res EXCEPT ![c] = NoResult]
    /\ loaded' = [loaded EXCEPT ![c] = <<>>]
    /\ cursor' = [cursor EXCEPT ![c] = 0]
    /\ out' = [out EXCEPT ![c] = <<>>]
    /\ UNCHANGED db

Next ==
    \E c \in Callers :
        \/ CallInsertCourse(c)
        \/ IcPathway(c)
        \/ IcProfessor(c)
        \/ IcTopic(c)
        \/ IcCourse(c)
        \/ CallInsertSession(c)
        \/ IsBody(c)
        \/ CallStreamByFilter(c)
        \/ CallStreamPair(c)
        \/ SfEntity(c)
        \/ SpProfessor(c)
        \/ SpTopic(c)
        \/ StCourses(c)
        \/ StYield(c)
        \/ StClose(c)
        \/ Return(c)

Spec == Init /\ [][Next]_vars

(***************************************************************************)
(* The course key over generated ids.  A caller generates the ids of a     *)
(* pathway, a professor and a topic from names, as _insert_entity does     *)
(* for the names insert_course hands it, and derives the key of their      *)
(* course.                                                                 *)
(***************************************************************************)
\* Names with a hyphen, an underscore, a digit, punctuation and spaces, and
\* a name with no word character at all.
KeyPathwayNames == {<<"M">>, <<"a", "-", "b">>}

KeyProfessorNames == {<<"-">>, <<"A", " ", "l">>}

KeyTopicNames == {<<"4", "d">>, <<"x", "_", "y", ".", "z">>}

\* entity = model(id=generate_id(name), name=name, **kwargs) for the three
\* names of a request.
KeyGenerate(c) ==
    /\ pc[c] = "idle"
    /\ \E pn \in KeyPathwayNames, rn \in KeyProfessorNames, tn \in KeyTopicNames :
         \E ps \in RandomSuffixes, rs \in RandomSuffixes, ts \in RandomSuffixes :
             LET p == NewEntity("Pathway", generate_id(RemoveSpaces(pn), ps), RemoveSpaces(pn), <<>>)
                 r == NewEntity("Professor", generate_id(ProfessorWriteName(rn), rs), ProfessorWriteName(rn),
                                [email |-> "a@x.com", pathway_id |-> p.id])
                 t == NewEntity("Topic", generate_id(RemoveSpaces(tn), ts), RemoveSpaces(tn), <<>>)
             IN  /\ pathway' = [pathway EXCEPT ![c] = {p}]
                 /\ professor' = [professor EXCEPT ![c] = {r}]
                 /\ topic' = [topic EXCEPT ![c] = {t}]
    /\ pc' = [pc EXCEPT ![c] = "key"]
    /\ op' = [op EXCEPT ![c] = "course_key"]
    /\ UNCHANGED <<db, req, snap, created, res, loaded, cursor, out>>

\* course_id = f"{pathway.id}-{professor.id}-{topic.id}"
KeyDerive(c) ==
    /\ pc[c] = "key"
    /\ \E p \in pathway[c], r \in professor[c], t \in topic[c] :
         res' = [res EXCEPT ![c] = Returned(CourseKey(p.id, r.id, t.id))]
    /\ pc' = [pc EXCEPT ![c] = "done"]
    /\ UNCHANGED <<db, op, req, snap, pathway, professor, topic, created, loaded, cursor, out>>

KeyInit == Init /\ db = EmptyStore

KeyNext == \E c \in Callers : KeyGenerate(c) \/ KeyDerive(c) \/ Return(c)

KeySpec == KeyInit /\ [][KeyNext]_vars

(***************************************************************************)
(* The claims.                                                             *)
(***************************************************************************)
InsertCourseCalls == {c \in Callers : op[c] = "insert_course"}

InsertSessionCalls == {c \in Callers : op[c] = "insert_session"}

StreamCalls == {c \in Callers : op[c] \in {"stream_courses_by_filter", "stream_courses_on_prof_and_topic"}}

\* The positions of an insert_course call after its pathway, professor and
\* topic steps.
AfterPathway == {"ic_professor", "ic_topic", "ic_course", "done"}

AfterProfessor == {"ic_topic", "ic_course", "done"}

Named(rows, name) == {x \in rows : x.name = name}

\* The Course rows of a store for the triple a CourseRequest names, the
\* professor taken by email or by name.
CoursesOfTriple(store, request) ==
    {x \in store.courses :
        \E p \in Named(store.pathway, RemoveSpaces(request.pathway_name)),
           r \in store.professors,
           t \in Named(store.topics, RemoveSpaces(request.topic_name)) :
             /\ r.email = request.professor_email \/ r.name = ProfessorWriteName(request.professor_name)
             /\ x.id = CourseKey(p.id, r.id, t.id)}

\* C1: a finished create_course call for a triple that had no Course row has
\* returned the course id, and the store holds that Course row, the Session
\* row {course_id}-{session_number} of every supplied session and the Media
\* row {session_id}-{type} of every supplied media item.
C1_CreateCourseInserts ==
    \A c \in InsertCourseCalls :
        (pc[c] = "done" /\ CoursesOfTriple(snap[c], req[c]) = {}) =>
            /\ res[c].kind = "return"
            /\ res[c].detail \in Ids(db.courses)
            /\ \A i \in DOMAIN req[c].sessions :
                 LET sid == SessionKey(res[c].detail, req[c].sessions[i].session_number)
                 IN  /\ Cardinality({x \in db.sessions : x.id = sid}) = 1
                     /\ \A j \in DOMAIN req[c].sessions[i].media :
                          Cardinality({x \in db.media : x.id = MediaKey(sid, req[c].sessions[i].media[j].type)}) = 1

\* C2: a finished create_course call whose resolved triple already had its
\* Course row has raised CourseAlreadyExistsError carrying that row's id to
\* its caller, and has left every table as it was.
C2_DuplicateCourseSurfaced ==
    \A c \in InsertCourseCalls :
        \A p \in pathway[c], r \in professor[c], t \in topic[c] :
            (pc[c] = "done" /\ CourseKey(p.id, r.id, t.id) \in Ids(snap[c].courses)) =>
                /\ res[c].kind = "raise"
                /\ res[c].exc = "CourseAlreadyExistsError"
                /\ res[c].detail = CourseKey(p.id, r.id, t.id)
                /\ db = snap[c]

\* C3: once a create_course call is past the resolve-or-create of a pathway
\* (topic) whose name matched no stored row, the call holds a row of that
\* name and the store holds exactly that one row of the name; likewise for
\* a professor whose name and email matched no row, with the supplied email
\* and pathway id.
C3_ResolveOrCreateCreates ==
    \A c \in InsertCourseCalls :
        /\ (pc[c] \in AfterPathway /\ Named(snap[c].pathway, RemoveSpaces(req[c].pathway_name)) = {}) =>
              \E e \in pathway[c] :
                 /\ e.name = RemoveSpaces(req[c].pathway_name)
                 /\ Named(db.pathway, e.name) = {e}
        /\ (/\ pc[c] \in AfterProfessor
            /\ pathway[c] # {}
            /\ \A x \in snap[c].professors :
                 x.name # ProfessorWriteName(req[c].professor_name) /\ x.email # req[c].professor_email) =>
              \E e \in professor[c] :
                 /\ e.name = ProfessorWriteName(req[c].professor_name)
                 /\ e.email = req[c].professor_email
                 /\ e.pathway_id \in Ids(pathway[c])
                 /\ Named(db.professors, e.name) = {e}
        /\ (/\ pc[c] \in {"ic_course", "done"}
            /\ professor[c] # {}
            /\ Named(snap[c].topics, RemoveSpaces(req[c].topic_name)) = {}) =>
              \E e \in topic[c] :
                 /\ e.name = RemoveSpaces(req[c].topic_name)
                 /\ Named(db.topics, e.name) = {e}

TriplesOfSessionRequest(store, request) ==
    {<<p, r, t>> \in store.pathway \X store.professors \X store.topics :
        /\ r.name = RemoveSpaces(request.professor_name)
        /\ t.name = RemoveSpaces(request.topic_name)}

\* C5: the two writers build the same course key from the same ancestors,
\* so a finished append_sessions call for a triple whose Course row
\* create_course's key names has returned that course's id and the store
\* holds the supplied sessions and media.
C5_SessionWriterFindsCourse ==
    \A c \in InsertSessionCalls :
        \A tr \in TriplesOfSessionRequest(snap[c], req[c]) :
            (pc[c] = "done" /\ CourseKey(tr[1].id, tr[2].id, tr[3].id) \in Ids(snap[c].courses)) =>
                /\ SessionWriterCourseKey(tr[1].id, tr[2].id, tr[3].id) = CourseKey(tr[1].id, tr[2].id, tr[3].id)
                /\ res[c].kind = "return"
                /\ res[c].detail = CourseKey(tr[1].id, tr[2].id, tr[3].id)
                /\ Range(SessionObjects(res[c].detail, req[c].sessions)) \subseteq db.sessions
                /\ Range(MediaObjects(res[c].detail, req[c].sessions)) \subseteq db.media

\* C6: a finished append_sessions call whose professor and topic are stored
\* (and some pathway is) but have no Course row has raised
\* CourseNotFoundError, and the Session and Media tables are as they were.
C6_MissingCourseIsCourseNotFound ==
    \A c \in InsertSessionCalls :
        (/\ pc[c] = "done"
         /\ TriplesOfSessionRequest(snap[c], req[c]) # {}
         /\ \A tr \in TriplesOfSessionRequest(snap[c], req[c]) :
              \A x \in snap[c].courses : ~(x.professor_id = tr[2].id /\ x.topic_id = tr[3].id)) =>
            /\ res[c].kind = "raise"
            /\ res[c].exc = "CourseNotFoundError"
            /\ db.sessions = snap[c].sessions
            /\ db.media = snap[c].media

\* C7: the store never holds two Pathway rows of one name, and when two
\* create_course calls that named the same pathway, stored when neither
\* began, have both finished, it holds exactly one row of that name.
C7_ConcurrentCreateOnePathway ==
    /\ \A x, y \in db.pathway : x.name = y.name => x = y
    /\ \A c1, c2 \in InsertCourseCalls :
         (/\ c1 # c2
          /\ pc[c1] = "done" /\ pc[c2] = "done"
          /\ RemoveSpaces(req[c1].pathway_name) = RemoveSpaces(req[c2].pathway_name)
          /\ Named(snap[c1].pathway, RemoveSpaces(req[c1].pathway_name)) = {}
          /\ Named(snap[c2].pathway, RemoveSpaces(req[c2].pathway_name)) = {}) =>
             Cardinality(Named(db.pathway, RemoveSpaces(req[c1].pathway_name))) = 1

\* Whether a record a stream yielded is an error record.
IsErrorRecord(rec) == "error" \in DOMAIN rec

\* Whether a stream met a store that failed one of its selects.
StoreFault(c) == res[c].cause \in {"DatabaseError", "SQLAlchemyError"}

\* C8: a finished stream by professor name n (by topic name n) over a store
\* that holds a professor (topic) under the name create_course stores for n
\* and answers every select has found it: it has yielded no error record.
C8_ReadFindsWhatWriteStored ==
    \A c \in StreamCalls :
        (pc[c] = "done" /\ op[c] = "stream_courses_by_filter" /\ ~StoreFault(c)) =>
            /\ (/\ req[c].filter_by = "professor"
                /\ Named(snap[c].professors, ProfessorWriteName(req[c].value)) # {}) =>
                  \A i \in DOMAIN out[c] : ~IsErrorRecord(out[c][i])
            /\ (/\ req[c].filter_by = "topic"
                /\ Named(snap[c].topics, RemoveSpaces(req[c].value)) # {}) =>
                  \A i \in DOMAIN out[c] : ~IsErrorRecord(out[c][i])

\* C9: once a create_course call whose professor_email is the email of a
\* stored professor is past its professor step, it holds that professor,
\* and the Professor table is as it was.
C9_ProfessorResolvedByEmail ==
    \A c \in InsertCourseCalls :
        \A r \in snap[c].professors :
            (pc[c] \in AfterProfessor /\ pathway[c] # {} /\ r.email = req[c].professor_email) =>
                /\ professor[c] = {r}
                /\ db.professors = snap[c].professors

\* Whether the key of a stream's request names no stored entity: the
\* professor or the topic of the filter, or either one of the pair.
ResolvesToNothing(store, operation, request) ==
    IF operation = "stream_courses_by_filter"
    THEN Named(Table(store, FilterModel(request.filter_by)), RemoveSpaces(request.value)) = {}
    ELSE \/ Named(store.professors, RemoveSpaces(request.professor_name)) = {}
         \/ Named(store.topics, RemoveSpaces(request.topic_name)) = {}

\* C10: a stream whose key names no stored entity yields nothing but one
\* error record: it never holds more than that record, once it holds it the
\* generator has only its end left, and when the stream has ended it holds
\* exactly that record.
C10_NoMatchYieldsOneError ==
    \A c \in StreamCalls :
        ResolvesToNothing(snap[c], op[c], req[c]) =>
            /\ Len(out[c]) <= 1
            /\ \A i \in DOMAIN out[c] : IsErrorRecord(out[c][i])
            /\ out[c] # <<>> => pc[c] \in {"st_close", "done"}
            /\ pc[c] = "done" => Len(out[c]) = 1

\* A stream by a name that matches nothing has ended with its one error
\* record, over a store of two courses.
C10_Witness ==
    \E c \in StreamCalls :
        /\ pc[c] = "done"
        /\ ResolvesToNothing(snap[c], op[c], req[c])
        /\ Cardinality(db.courses) = 2
        /\ Len(out[c]) = 1
        /\ IsErrorRecord(out[c][1])

\* Whether a Course record carries exactly the sessions the store holds for
\* a course row, and each of them exactly the media the store holds for it.
HoldsCourse(store, rec, course) ==
    LET ss == {s \in store.sessions : s.course_id = course.id}
    IN  /\ Len(rec.sessions) = Cardinality(ss)
        /\ \A s \in ss :
              \E i \in DOMAIN rec.sessions :
                  LET mm == {m \in store.media : m.session_id = s.id}
                  IN  /\ rec.sessions[i].session_number = s.session_number
                      /\ rec.sessions[i].title = s.title
                      /\ rec.sessions[i].description = s.description
                      /\ Len(rec.sessions[i].media) = Cardinality(mm)
                      /\ \A m \in mm :
                            \E j \in DOMAIN rec.sessions[i].media :
                                rec.sessions[i].media[j] = [type |-> m.type, url |-> m.url]

\* C11: a finished stream by professor, whose lookup key is the name of a
\* stored professor and whose selects the store answered, has yielded one
\* record for each Course of that professor and nothing else: no record of
\* another Course, no error record, and each record with exactly the
\* sessions of its Course and exactly the media of each session.
C11_StreamByProfessorYieldsTheirCourses ==
    \A c \in StreamCalls :
        (/\ pc[c] = "done"
         /\ op[c] = "stream_courses_by_filter"
         /\ req[c].filter_by = "professor"
         /\ ~StoreFault(c)
         /\ Named(snap[c].professors, RemoveSpaces(req[c].value)) # {}) =>
            \E e \in Named(snap[c].professors, RemoveSpaces(req[c].value)) :
                LET mine == {x \in snap[c].courses : x.professor_id = e.id}
                IN  /\ Len(out[c]) = Cardinality(mine)
                    /\ \A x \in mine : \E i \in DOMAIN out[c] : ~IsErrorRecord(out[c][i]) /\ out[c][i].id = x.id
                    /\ \A i \in DOMAIN out[c] :
                          /\ ~IsErrorRecord(out[c][i])
                          /\ \E x \in mine : out[c][i].id = x.id /\ HoldsCourse(snap[c], out[c][i], x)

\* A stream by the name of professor al has ended over the store that also
\* holds a course of professor bo: two records, each with its one session
\* and that session's one media item.
C11_Witness ==
    \E c \in StreamCalls :
        /\ pc[c] = "done"
        /\ op[c] = "stream_courses_by_filter"
        /\ req[c].filter_by = "professor"
        /\ ~StoreFault(c)
        /\ Cardinality(snap[c].courses) = 3
        /\ Len(out[c]) = 2
        /\ \A i \in DOMAIN out[c] :
              /\ ~IsErrorRecord(out[c][i])
              /\ Len(out[c][i].sessions) = 1
              /\ Len(out[c][i].sessions[1].media) = 1

\* C12: a stream never raises to its consumer.  Whatever the filter, the
\* store and the select that failed, a stream call has raised nothing; when
\* it has ended it has returned; an exception it caught is in the stream as
\* an error record; and an error record is the last element of the stream,
\* after which the generator has only its end left.
C12_StreamsNeverRaise ==
    \A c \in StreamCalls :
        /\ res[c].kind # "raise"
        /\ pc[c] = "done" => res[c].kind = "return"
        /\ res[c].cause # "none" => (out[c] # <<>> /\ IsErrorRecord(out[c][Len(out[c])]))
        /\ \A i \in DOMAIN out[c] :
              IsErrorRecord(out[c][i]) => (i = Len(out[c]) /\ pc[c] \in {"st_close", "done"})

\* Two streams have ended over a store with courses, one after its lookup
\* select failed, one after its select of the courses failed: each has
\* returned, with the error record as its last element.
C12_Witness ==
    \E c1, c2 \in StreamCalls :
        /\ pc[c1] = "done" /\ pc[c2] = "done"
        /\ db.courses # {}
        /\ res[c1].cause = "DatabaseError" /\ res[c2].cause = "SQLAlchemyError"
        /\ res[c1].kind = "return" /\ res[c2].kind = "return"
        /\ IsErrorRecord(out[c1][Len(out[c1])])
        /\ IsErrorRecord(out[c2][Len(out[c2])])

\* C13: insert_session leaves the parents alone.  Once a call has ended,
\* returned or raised, the Pathway, Professor, Topic and Course tables hold
\* the rows they held when it began.
C13_AppendSessionsLeavesParents ==
    \A c \in InsertSessionCalls :
        pc[c] = "done" =>
            /\ db.pathway = snap[c].pathway
            /\ db.professors = snap[c].professors
            /\ db.topics = snap[c].topics
            /\ db.courses = snap[c].courses

\* An insert_session call has ended over a store with parents, for a topic
\* name no row has.
C13_Witness ==
    \E c \in InsertSessionCalls :
        /\ pc[c] = "done"
        /\ res[c].kind = "raise"
        /\ snap[c].courses # {}
        /\ Named(snap[c].topics, RemoveSpaces(req[c].topic_name)) = {}

\* The callers that hold a derived course key.
KeyCalls == {c \in Callers : op[c] = "course_key" /\ pc[c] = "done"}

\* The ancestor ids a caller derived its key from.
KeyTriple(c) == <<{x.id : x \in pathway[c]}, {x.id : x \in professor[c]}, {x.id : x \in topic[c]}>>

\* C14: over ids produced by generate_id, the course key is a function of
\* the triple of ancestor ids and is injective: two derivations from the
\* same triple give the same key, two from triples that differ in any
\* ancestor id give different keys, and no generated id holds the
\* separator.
C14_CourseKeyInjective ==
    \A c1, c2 \in KeyCalls :
        /\ KeyTriple(c1) = KeyTriple(c2) => res[c1].detail = res[c2].detail
        /\ KeyTriple(c1) # KeyTriple(c2) => res[c1].detail # res[c2].detail
        /\ \A x \in pathway[c1] \cup professor[c1] \cup topic[c1] : "-" \notin Range(x.id)

\* Two keys have been derived from triples that differ in the pathway id
\* alone, one of them for a pathway whose name holds a hyphen.
C14_Witness ==
    \E c1, c2 \in KeyCalls :
        /\ KeyTriple(c1)[1] # KeyTriple(c2)[1]
        /\ KeyTriple(c1)[2] = KeyTriple(c2)[2]
        /\ KeyTriple(c1)[3] = KeyTriple(c2)[3]
        /\ \E x \in pathway[c1] : "-" \in Range(x.name)
        /\ res[c1].detail # res[c2].detail

\* What of a result reaches the caller: the cause is logged and dropped.
Visible(r) == [kind |-> r.kind, exc |-> r.exc, detail |-> r.detail]

\* C15: when two create_course calls that named the same pathway, stored
\* when neither began, have both finished (the first-creation race), a call
\* of the two that failed has raised something its caller can tell from
\* what create_course raises for an existing course and from what it raises
\* for another failure of the store.
C15_FirstCreationConflictDistinct ==
    \A c1, c2 \in InsertCourseCalls :
        (/\ c1 # c2
         /\ pc[c1] = "done" /\ pc[c2] = "done"
         /\ RemoveSpaces(req[c1].pathway_name) = RemoveSpaces(req[c2].pathway_name)
         /\ Named(snap[c1].pathway, RemoveSpaces(req[c1].pathway_name)) = {}
         /\ Named(snap[c2].pathway, RemoveSpaces(req[c2].pathway_name)) = {}
         /\ res[c1].kind = "raise") =>
            /\ Visible(res[c1]) # Visible(InsertCourseExcept(req[c1], "CourseAlreadyExistsError"))
            /\ Visible(res[c1]) # Visible(InsertCourseExcept(req[c1], "SQLAlchemyError"))

\* C16: a stream over a result of two or more Courses yields its first
\* record before the last Course row has been fetched: whenever the call
\* holds every row of such a result, it has already yielded a record.
C16_FirstRecordBeforeLastRow ==
    \A c \in StreamCalls :
        (/\ Len(loaded[c]) >= 2
         /\ Len(loaded[c]) = Cardinality(Selected(snap[c], op[c], req[c], professor[c], topic[c]))) =>
            out[c] # <<>>

\* C17: in every reachable state every Course row carries the id of a
\* stored pathway, the id of a stored professor and the id of a stored
\* topic.
C17_CourseAncestorsExist ==
    \A x \in db.courses :
        /\ "pathway_id" \in DOMAIN x /\ x.pathway_id \in Ids(db.pathway)
        /\ "professor_id" \in DOMAIN x /\ x.professor_id \in Ids(db.professors)
        /\ "topic_id" \in DOMAIN x /\ x.topic_id \in Ids(db.topics)

\* Whether the Session and Media ids of a list of sessions collide: two
\* sessions of one number, two media of one type in a session, or a session
\* number for which one of the courses has a stored Session row.
SessionsCollide(store, courses, ss) ==
    \/ \E i, j \in DOMAIN ss : i # j /\ ss[i].session_number = ss[j].session_number
    \/ \E i \in DOMAIN ss : \E j, k \in DOMAIN ss[i].media : j # k /\ ss[i].media[j].type = ss[i].media[k].type
    \/ \E x \in courses, i \in DOMAIN ss : SessionKey(x.id, ss[i].session_number) \in Ids(store.sessions)

\* The exception of a commit the store rejects for a duplicate id.
DuplicationErrors == {"SQLAlchemyError"}

\* C18: an append_sessions call whose sessions collide has failed with a
\* duplication error and none of its Session or Media rows persist.  A
\* request carries its sessions from the start; a call that has ended
\* without reading them ran the same for every list it may have carried, so
\* the statement is made for each such list that collides.
C18_CollidingSessionsFailWhole ==
    \A c \in InsertSessionCalls :
        \A ss \in SessionLists :
            (/\ pc[c] = "done"
             /\ req[c].sessions \in {<<>>, ss}
             /\ SessionsCollide(snap[c],
                                {x \in snap[c].courses :
                                    \E tr \in TriplesOfSessionRequest(snap[c], req[c]) :
                                        x.id = CourseKey(tr[1].id, tr[2].id, tr[3].id)},
                                ss)) =>
                /\ res[c].kind = "raise"
                /\ res[c].exc \in DuplicationErrors \/ res[c].cause \in DuplicationErrors
                /\ db.sessions = snap[c].sessions
                /\ db.media = snap[c].media

\* C19: an insert_session call that has failed has raised RequestFailure
\* to its caller and nothing else, also when it failed before course_id was
\* assigned.
C19_InsertSessionRaisesRequestFailure ==
    \A c \in InsertSessionCalls :
        (pc[c] = "done" /\ res[c].kind = "raise") => res[c].exc = "RequestFailure"

\* The pathway id embedded in a course id: the text before its first
\* separator.
EmbeddedPathwayId(id) ==
    LET seps == {i \in DOMAIN id : id[i] = "-"}
    IN  IF seps = {} THEN id
        ELSE SubSeq(id, 1, (CHOOSE i \in seps : \A j \in seps : i <= j) - 1)

====
